---- MODULE Spec2Model ----
(***************************************************************************)
(* A model of aml-dtbtools (src/src/dtb_tool.rs): the Amlogic multi-DTB    *)
(* container codec.  Files are sequences of bytes (0..255), strings are    *)
(* sequences of character codes.  The host is little-endian (the header    *)
(* and entry records are read and written as raw host-order structs).      *)
(***************************************************************************)
EXTENDS Integers, Sequences, FiniteSets

VARIABLES
    pc,         \* position of the run: "setup", "packed", "done"
    page_size,  \* PackArgs.page_size
    dir,        \* the input directory, in read_dir order
    pack,       \* what dtb_pack did: chip_list, diagnostics, the output file
    variant,    \* how the image handed to split was derived from pack's output
    image,      \* the file dtb_split opens
    split,      \* what dtb_split did: status, files created, diagnostics
    c_pc,       \* identifier codec: "in", "stored", "decoded"
    c_src,      \* identifier codec: the component given to the encoder
    c_pad,      \* identifier codec: who stored the field and how it padded it
    c_field,    \* identifier codec: the 16-byte field as stored
    c_text      \* identifier codec: the text decoded from the field

vars == <<pc, page_size, dir, pack, variant, image, split,
          c_pc, c_src, c_pad, c_field, c_text>>
mainVars == <<pc, page_size, dir, pack, variant, image, split>>
codecVars == <<c_pc, c_src, c_pad, c_field, c_text>>

(***************************************************************************)
(* Program constants.                                                      *)
(***************************************************************************)
AML_DT_VERSION == 2
INFO_ENTRY_SIZE == 16
\* b"AML_" : the word 0x5f4c4d41 as it lies in a little-endian file
AML_DT_HEADER == <<65, 76, 77, 95>>
\* the word 0xedfe0dd0 as it lies in a little-endian file (d0 0d fe ed)
DT_HEADER_MAGIC == <<208, 13, 254, 237>>
\* header.magic & 0xffff == 0x8b1f : the first two bytes of the file
GZIP_MAGIC16 == <<31, 139>>
\* size_of::<Header>() : three u32
HeaderSize == 4 + 4 + 4
\* size_of::<DTHeader>() : two u32
DTHeaderSize == 4 + 4
\* size_of::<HeaderEntry<ID_SIZE>>() : repr(C), three byte arrays and two u32
EntrySize(id_size) == id_size + id_size + id_size + 4 + 4

(***************************************************************************)
(* Bounds of the model.                                                    *)
(***************************************************************************)
MaxFiles == 3      \* files in the input directory
MaxPage == 4       \* page sizes 1..MaxPage
MaxExtra == 1      \* blob lengths MinBlobLen..MinBlobLen+MaxExtra
MaxCompLen == 16   \* identifier components of 0..MaxCompLen characters

(***************************************************************************)
(* Bytes and words.                                                        *)
(***************************************************************************)
Min(a, b) == IF a < b THEN a ELSE b
Zeros(n) == [i \in 1..n |-> 0]
\* u32::to_le_bytes / a u32 field of a repr(C) struct on a little-endian host
LE32(n) == <<n % 256, (n \div 256) % 256, (n \div 65536) % 256, (n \div 16777216) % 256>>
\* a u32 field read back from raw bytes (words of the model stay below 2^31)
U32LE(b) == b[1] + 256 * b[2] + 65536 * b[3] + 16777216 * b[4]
\* u32::from_be of a word read in host order: the bytes taken big-endian
U32BE(b) == b[4] + 256 * b[3] + 65536 * b[2] + 16777216 * b[1]
BE32(n) == <<(n \div 16777216) % 256, (n \div 65536) % 256, (n \div 256) % 256, n % 256>>

RECURSIVE Concat(_)
Concat(ss) == IF ss = <<>> THEN <<>> ELSE Head(ss) \o Concat(Tail(ss))

(***************************************************************************)
(* Identifier codec.                                                       *)
(***************************************************************************)
\* char::is_ascii
IsAscii(c) == c < 128
\* char::is_whitespace on the characters of the model (White_Space)
IsWhitespace(c) == c \in {9, 10, 11, 12, 13, 32, 133, 160}
\* the UTF-8 length of a character below U+0800
Utf8Len(c) == IF c < 128 THEN 1 ELSE 2
RECURSIVE StrLen(_)
\* str::len : the length in bytes
StrLen(s) == IF s = <<>> THEN 0 ELSE Utf8Len(Head(s)) + StrLen(Tail(s))

RECURSIVE CopyLoop(_, _, _, _)
\* the loop of copy_str_to_cstr from index i (0-based) up to n; panic is
\* chars().nth(i).unwrap() on a string with fewer than i+1 characters
CopyLoop(dst, src, i, n) ==
    IF i >= n THEN [panic |-> FALSE, dst |-> dst]
    ELSE IF i + 1 > Len(src) THEN [panic |-> TRUE, dst |-> dst]
    ELSE IF ~IsAscii(src[i + 1]) \/ IsWhitespace(src[i + 1]) THEN [panic |-> FALSE, dst |-> dst]
    ELSE CopyLoop([dst EXCEPT ![i + 1] = src[i + 1]], src, i + 1, n)

\* returns [panic, dst]: dst after the call
copy_str_to_cstr(dst, src) ==
    LET r == CopyLoop(dst, src, 0, Min(StrLen(src), INFO_ENTRY_SIZE - 1))
    IN  [panic |-> r.panic, dst |-> [r.dst EXCEPT ![INFO_ENTRY_SIZE] = 0]]

\* a pad_spaces that leaves the field as it is
pad_spaces_noop(s) == s

RECURSIVE PadFrom(_, _)
\* the loop of pad_spaces, from index i (1-based) downwards
PadFrom(s, i) ==
    IF i = 0 THEN s
    ELSE IF s[i] = 0 THEN PadFrom([s EXCEPT ![i] = 32], i - 1)
    ELSE s

pad_spaces(s) == PadFrom(s, Len(s))

\* for chunk in field.chunks_mut(4) { chunk.reverse() }
ReverseChunks(s) ==
    [i \in 1..Len(s) |->
        LET lo == 4 * ((i - 1) \div 4) + 1
            hi == Min(lo + 3, Len(s))
        IN  s[lo + hi - i]]

RECURSIVE trim_end(_)
\* str::trim_end : drops trailing White_Space characters (NUL is not one)
trim_end(s) ==
    IF s # <<>> /\ IsWhitespace(s[Len(s)]) THEN trim_end(SubSeq(s, 1, Len(s) - 1))
    ELSE s

\* dump_data: one identifier field to text
DecodeField(f) == trim_end(ReverseChunks(f))

\* dtb_pack: one ChipInfo field to its stored form
EncodeField(f) == ReverseChunks(pad_spaces(f))

(***************************************************************************)
(* Input files.  The device-tree parser is an external collaborator: a     *)
(* file carries what DeviceTree::load, find("/") and prop_str answer.      *)
(***************************************************************************)
\* "gxbb-p200-1a", "gxl_p212_2g", "g12a-u200_b"
Ids == << <<103, 120, 98, 98, 45, 112, 50, 48, 48, 45, 49, 97>>,
          <<103, 120, 108, 95, 112, 50, 49, 50, 95, 50, 103>>,
          <<103, 49, 50, 97, 45, 117, 50, 48, 48, 95, 98>> >>
\* "gxbb-p200" (two components) and "gxm-q200-2g-v1" (four components)
ShortId == <<103, 120, 98, 98, 45, 112, 50, 48, 48>>
LongId == <<103, 120, 109, 45, 113, 50, 48, 48, 45, 50, 103, 45, 118, 49>>

\* the smallest blob of the model: a DTHeader and one Header's worth of body
MinBlobLen == DTHeaderSize + HeaderSize
BlobLens == MinBlobLen..(MinBlobLen + MaxExtra)

\* a blob of len bytes: DTHeader {magic, totalsize (big-endian)}, then a body
\* that differs from file to file and from byte to byte
Blob(tag, len) ==
    DT_HEADER_MAGIC \o BE32(len) \o
    [j \in 1..(len - DTHeaderSize) |-> (16 * tag + j) % 256]

DtbFile(tag, id, len) ==
    [ext |-> "dtb", valid |-> TRUE, root |-> TRUE, prop |-> TRUE,
     id |-> id, buf |-> Blob(tag, len)]

\* identifier k comes with blob length MinBlobLen + (k mod (MaxExtra + 1))
WellFormedFiles ==
    {DtbFile(k, Ids[k], MinBlobLen + (k % (MaxExtra + 1))) : k \in 1..Len(Ids)}

InputFiles ==
    WellFormedFiles \cup
    { DtbFile(5, ShortId, MinBlobLen),
      DtbFile(6, LongId, MinBlobLen),
      [DtbFile(7, <<>>, MinBlobLen) EXCEPT !.prop = FALSE],
      [DtbFile(8, <<>>, MinBlobLen) EXCEPT !.root = FALSE],
      [DtbFile(9, <<>>, MinBlobLen) EXCEPT !.valid = FALSE],
      [DtbFile(10, Ids[1], MinBlobLen) EXCEPT !.ext = "txt"] }

PageSizes == 0..MaxPage

(***************************************************************************)
(* Pack.                                                                   *)
(***************************************************************************)
RECURSIVE SplitFrom(_, _, _)
\* s.split(&['_', '-']) : cur is the component being collected
SplitFrom(s, i, cur) ==
    IF i > Len(s) THEN <<cur>>
    ELSE IF s[i] \in {95, 45} THEN <<cur>> \o SplitFrom(s, i + 1, <<>>)
    ELSE SplitFrom(s, i + 1, Append(cur, s[i]))

StrSplit(s) == SplitFrom(s, 1, <<>>)

\* the conventional round-up, which adds nothing to an aligned length
PaddedSizeRoundUp(len, p) == ((len + p - 1) \div p) * p

\* chip.dtb_size = buf.len() + (page_size - (buf.len() % page_size))
PaddedSize(len, p) == len + (p - (len % p))

NoChip == [chipset |-> <<>>, platform |-> <<>>, rev_num |-> <<>>,
           dtb_size |-> 0, dtb_file |-> <<>>]

\* get_chip_info: [res, chip, warned]; res is "some", "none" or "panic"
get_chip_info(f, p) ==
    IF ~f.valid THEN [res |-> "panic", chip |-> NoChip, warned |-> FALSE]
    ELSE IF ~f.root THEN [res |-> "none", chip |-> NoChip, warned |-> FALSE]
    ELSE IF ~f.prop THEN [res |-> "none", chip |-> NoChip, warned |-> FALSE]
    ELSE
        LET sp == StrSplit(f.id)
            warned == Len(sp) # 3
        IN  IF Len(sp) < 3 \/ p = 0
            THEN [res |-> "panic", chip |-> NoChip, warned |-> warned]
            ELSE
                LET c0 == copy_str_to_cstr(Zeros(INFO_ENTRY_SIZE), sp[1])
                    c1 == copy_str_to_cstr(Zeros(INFO_ENTRY_SIZE), sp[2])
                    c2 == copy_str_to_cstr(Zeros(INFO_ENTRY_SIZE), sp[3])
                IN  IF c0.panic \/ c1.panic \/ c2.panic
                    THEN [res |-> "panic", chip |-> NoChip, warned |-> warned]
                    ELSE [res |-> "some", warned |-> warned,
                          chip |-> [chipset |-> c0.dst, platform |-> c1.dst,
                                    rev_num |-> c2.dst,
                                    dtb_size |-> PaddedSize(Len(f.buf), p),
                                    dtb_file |-> f.buf]]

RECURSIVE ScanLoop(_, _, _, _, _, _)
\* the read_dir loop of dtb_pack from entry i: chips collected, the directory
\* entry each came from, and the diagnostics; panic when get_chip_info panics
ScanLoop(d, i, chips, from, log, p) ==
    IF i > Len(d) THEN [panic |-> FALSE, chip_list |-> chips, from |-> from, log |-> log]
    ELSE IF d[i].ext # "dtb" THEN ScanLoop(d, i + 1, chips, from, log, p)
    ELSE
        LET r == get_chip_info(d[i], p)
            log1 == Append(log, <<"found_file", i>>)
            log2 == IF r.warned THEN Append(log1, <<"cannot_parse", i>>) ELSE log1
        IN  IF r.res = "panic"
            THEN [panic |-> TRUE, chip_list |-> chips, from |-> from, log |-> log2]
            ELSE IF r.res = "some"
            THEN ScanLoop(d, i + 1, Append(chips, r.chip), Append(from, i), log2, p)
            ELSE ScanLoop(d, i + 1, chips, from, Append(log2, <<"skip", i>>), p)

\* size_of::<Header>() + size_of::<HeaderEntryV2>() * dtb_count + 4
TableEnd(n) == HeaderSize + EntrySize(INFO_ENTRY_SIZE) * n + 4
\* padding = page_size - (dtb_offset % page_size)
HeadPadding(n, p) == p - (TableEnd(n) % p)

RECURSIVE EntryTable(_, _, _)
\* the entry loop of dtb_pack from chip i, expected being the running offset
EntryTable(chips, i, expected) ==
    IF i > Len(chips) THEN <<>>
    ELSE
        EncodeField(chips[i].chipset) \o EncodeField(chips[i].platform) \o
        EncodeField(chips[i].rev_num) \o LE32(expected) \o LE32(chips[i].dtb_size) \o
        EntryTable(chips, i + 1, expected + chips[i].dtb_size)

\* the trailing filler after a blob: written only when 0 < filler_size < page_size
BlobFiller(len, p) ==
    LET filler_size == p - (len % p)
    IN  IF filler_size > 0 /\ filler_size < p THEN Zeros(filler_size) ELSE <<>>

RECURSIVE WriteBlobs(_, _, _, _, _)
\* the blob loop of dtb_pack from chip i: the file so far, and the file
\* position (0-based) at which each blob's first byte was written
WriteBlobs(chips, i, out, at, p) ==
    IF i > Len(chips) THEN [out |-> out, blob_at |-> at]
    ELSE
        LET buf == chips[i].dtb_file
        IN  WriteBlobs(chips, i + 1, out \o buf \o BlobFiller(Len(buf), p),
                       Append(at, Len(out)), p)

\* a guard that never stops pack
NothingToPackNever(dtb_count) == dtb_count < 0

\* whether dtb_pack stops before creating the output file
NothingToPack(dtb_count) == dtb_count = 0

\* dtb_pack: status "panic", "empty" (returned, nothing written) or "written"
dtb_pack(d, p) ==
    LET scan == ScanLoop(d, 1, <<>>, <<>>, <<>>, p)
        dtb_count == Len(scan.chip_list)
        none == [status |-> "panic", chip_list |-> scan.chip_list, from |-> scan.from,
                 log |-> scan.log, created |-> FALSE, out |-> <<>>, blob_at |-> <<>>]
    IN  IF scan.panic THEN none
        ELSE IF NothingToPack(dtb_count)
        THEN [none EXCEPT !.status = "empty", !.chip_list = <<>>,
                          !.log = Append(scan.log, <<"count", dtb_count>>)]
        ELSE IF p = 0
        THEN \* the file is created and the header written, then the remainder
             \* by page_size = 0 panics
             [none EXCEPT !.log = Append(scan.log, <<"count", dtb_count>>),
                          !.created = TRUE,
                          !.out = AML_DT_HEADER \o LE32(AML_DT_VERSION) \o LE32(dtb_count)]
        ELSE
            LET padding == HeadPadding(dtb_count, p)
                head == AML_DT_HEADER \o LE32(AML_DT_VERSION) \o LE32(dtb_count) \o
                        EntryTable(scan.chip_list, 1, TableEnd(dtb_count) + padding) \o
                        LE32(0) \o
                        (IF padding > 0 THEN Zeros(padding) ELSE <<>>)
                w == WriteBlobs(scan.chip_list, 1, head, <<>>, p)
            IN  [status |-> "written", chip_list |-> scan.chip_list, from |-> scan.from,
                 log |-> Append(Append(scan.log, <<"count", dtb_count>>), <<"written">>),
                 created |-> TRUE, out |-> w.out, blob_at |-> w.blob_at]

(***************************************************************************)
(* Split.                                                                  *)
(***************************************************************************)
\* read_exact of n bytes at position pos (0-based) succeeds
CanRead(data, pos, n) == pos + n <= Len(data)
ReadAt(data, pos, n) == SubSeq(data, pos + 1, pos + n)

\* GzDecoder (flate2, external): a gzip member is a 10-byte header, the
\* payload, and an 8-byte trailer whose last word is the payload's length
GzHeader == <<31, 139, 8, 0, 0, 0, 0, 0, 0, 3>>
GzTrailerSize == 4 + 4
Gzip(data) == GzHeader \o data \o LE32(0) \o LE32(Len(data))
Gunzip(f) ==
    IF /\ Len(f) >= Len(GzHeader) + GzTrailerSize
       /\ SubSeq(f, 1, Len(GzHeader)) = GzHeader
       /\ U32LE(SubSeq(f, Len(f) - 3, Len(f))) = Len(f) - Len(GzHeader) - GzTrailerSize
    THEN [ok |-> TRUE, data |-> SubSeq(f, Len(GzHeader) + 1, Len(f) - GzTrailerSize)]
    ELSE [ok |-> FALSE, data |-> <<>>]

\* Header read from raw bytes
ParseHeader(b) ==
    [magic |-> SubSeq(b, 1, 4), version |-> U32LE(SubSeq(b, 5, 8)),
     entry_count |-> U32LE(SubSeq(b, 9, 12))]

\* HeaderEntry<ID_SIZE> read from raw bytes
ParseEntry(b, id_size) ==
    [soc |-> SubSeq(b, 1, id_size),
     plat |-> SubSeq(b, id_size + 1, 2 * id_size),
     vari |-> SubSeq(b, 2 * id_size + 1, 3 * id_size),
     offset |-> U32LE(SubSeq(b, 3 * id_size + 1, 3 * id_size + 4)),
     dtb_size |-> U32LE(SubSeq(b, 3 * id_size + 5, 3 * id_size + 8))]

\* "out/" and ".dtb"
Dest == <<111, 117, 116, 47>>
DtbSuffix == <<46, 100, 116, 98>>

\* the identifier dump_data builds from an entry
EntryId(h) ==
    DecodeField(h.soc) \o <<45>> \o DecodeField(h.plat) \o <<45>> \o DecodeField(h.vari)
\* format!("{}{}.dtb", dest, id)
OutputPath(id) == Dest \o id \o DtbSuffix
\* File::create refuses a path holding a NUL byte
CanCreate(path) == \A k \in 1..Len(path) : path[k] # 0

RECURSIVE DumpLoop(_, _, _, _, _)
\* the second loop of dump_data from entry i: [status, files, log]
DumpLoop(data, hs, i, files, log) ==
    IF i > Len(hs) THEN [status |-> "ok", files |-> files, log |-> log]
    ELSE
        LET h == hs[i]
            id == EntryId(h)
            log1 == Append(log, <<"found_header", i>>)
        IN  IF ~CanRead(data, h.offset, DTHeaderSize)
            THEN [status |-> "io_error", files |-> files, log |-> log1]
            ELSE
                LET dth == ReadAt(data, h.offset, DTHeaderSize)
                IN  IF SubSeq(dth, 1, 4) # DT_HEADER_MAGIC
                    THEN DumpLoop(data, hs, i + 1, files, Append(log1, <<"mismatch", i>>))
                    ELSE
                        LET totalsize == U32BE(SubSeq(dth, 5, 8))
                        IN  IF ~CanRead(data, h.offset, totalsize) \/ ~CanCreate(OutputPath(id))
                            THEN [status |-> "io_error", files |-> files, log |-> log1]
                            ELSE DumpLoop(data, hs, i + 1,
                                     Append(files, [name |-> OutputPath(id),
                                                    data |-> ReadAt(data, h.offset, totalsize)]),
                                     Append(log1, <<"extract", i>>))

\* dump_data::<ID_SIZE>(entries, dest, dtb) with the reader at position pos
dump_data(id_size, entries, data, pos) ==
    LET sz == EntrySize(id_size)
    IN  IF ~CanRead(data, pos, entries * sz)
        THEN [status |-> "io_error", consumed |-> 0, headers |-> <<>>,
              files |-> <<>>, log |-> <<>>]
        ELSE
            LET hs == [k \in 1..entries |->
                          ParseEntry(ReadAt(data, pos + (k - 1) * sz, sz), id_size)]
                r == DumpLoop(data, hs, 1, <<>>, <<>>)
            IN  [status |-> r.status, consumed |-> entries * sz, headers |-> hs,
                 files |-> r.files, log |-> r.log]

NoSplit(status) ==
    [status |-> status, consumed |-> 0, headers |-> <<>>, files |-> <<>>, log |-> <<>>]

\* a dispatch with the two record shapes exchanged
DispatchSwapped(header, data, pos) ==
    IF header.version = 1 THEN dump_data(16, header.entry_count, data, pos)
    ELSE IF header.version = 2 THEN dump_data(4, header.entry_count, data, pos)
    ELSE NoSplit("version")

\* match header.version { 1 => dump_data::<4>, 2 => dump_data::<16>, _ => return }
Dispatch(header, data, pos) ==
    IF header.version = 1 THEN dump_data(4, header.entry_count, data, pos)
    ELSE IF header.version = 2 THEN dump_data(16, header.entry_count, data, pos)
    ELSE NoSplit("version")

\* the reader dtb_split hands to dump_data for an uncompressed file: the
\* header has been read from the file, read_to_end collects what follows it,
\* and the cursor over that buffer starts at 0
PlainReader(file) == [data |-> SubSeq(file, HeaderSize + 1, Len(file)), pos |-> 0]
\* for a gzip file: the whole decompressed buffer, the header read from it
GzReader(data) == [data |-> data, pos |-> HeaderSize]

\* dtb_split: status "ok", "invalid" (bad magic), "version", "io_error" (Err
\* returned) or "panic" (decompression failed)
dtb_split(file) ==
    IF ~CanRead(file, 0, HeaderSize) THEN NoSplit("io_error")
    ELSE
        LET header == ParseHeader(ReadAt(file, 0, HeaderSize))
        IN  IF header.magic # AML_DT_HEADER
            THEN IF SubSeq(header.magic, 1, 2) = GZIP_MAGIC16
                 THEN LET z == Gunzip(file)
                      IN  IF ~z.ok THEN NoSplit("panic")
                          ELSE IF ~CanRead(z.data, 0, HeaderSize) THEN NoSplit("io_error")
                          ELSE LET h2 == ParseHeader(ReadAt(z.data, 0, HeaderSize))
                                   rd == GzReader(z.data)
                               IN  IF h2.magic # AML_DT_HEADER THEN NoSplit("invalid")
                                   ELSE Dispatch(h2, rd.data, rd.pos)
                 ELSE NoSplit("invalid")
            ELSE LET rd == PlainReader(file)
                 IN  Dispatch(header, rd.data, rd.pos)

(***************************************************************************)
(* The images handed to split: pack's output as written, gzip-compressed,  *)
(* with one blob's magic corrupted, with another version number, a raw     *)
(* blob, or the same chips laid out as a version 1 container.              *)
(***************************************************************************)
RECURSIVE V1Table(_, _, _)
V1Table(chips, i, offset) ==
    IF i > Len(chips) THEN <<>>
    ELSE
        EncodeField(SubSeq(chips[i].chipset, 1, 4)) \o
        EncodeField(SubSeq(chips[i].platform, 1, 4)) \o
        EncodeField(SubSeq(chips[i].rev_num, 1, 4)) \o
        LE32(offset) \o LE32(Len(chips[i].dtb_file)) \o
        V1Table(chips, i + 1, offset + Len(chips[i].dtb_file))

CraftV1(chips) ==
    AML_DT_HEADER \o LE32(1) \o LE32(Len(chips)) \o
    V1Table(chips, 1, HeaderSize + EntrySize(4) * Len(chips)) \o
    Concat([k \in 1..Len(chips) |-> chips[k].dtb_file])

OtherVersions == {0, 3}

Variants(pk) ==
    LET n == Len(pk.chip_list)
    IN  {[kind |-> "asis", i |-> 0, gz |-> g] : g \in BOOLEAN} \cup
        {[kind |-> "corrupt", i |-> k, gz |-> g] : k \in 1..n, g \in BOOLEAN} \cup
        {[kind |-> "version", i |-> v, gz |-> g] : v \in OtherVersions, g \in BOOLEAN} \cup
        {[kind |-> "v1", i |-> 0, gz |-> g] : g \in BOOLEAN} \cup
        {[kind |-> "raw", i |-> 0, gz |-> FALSE]}

\* the uncompressed container of a variant
BaseImage(v, pk) ==
    CASE v.kind = "asis" -> pk.out
      [] v.kind = "corrupt" -> [pk.out EXCEPT ![pk.blob_at[v.i] + 1] = 0]
      [] v.kind = "version" ->
            [k \in 1..Len(pk.out) |-> IF k \in 5..8 THEN LE32(v.i)[k - 4] ELSE pk.out[k]]
      [] v.kind = "v1" -> CraftV1(pk.chip_list)
      [] OTHER -> pk.chip_list[1].dtb_file

VariantImage(v, pk) == IF v.gz THEN Gzip(BaseImage(v, pk)) ELSE BaseImage(v, pk)

(***************************************************************************)
(* The run: fill the input directory, pack it, split an image.             *)
(***************************************************************************)
NoPack == [status |-> "none", chip_list |-> <<>>, from |-> <<>>, log |-> <<>>,
           created |-> FALSE, out |-> <<>>, blob_at |-> <<>>]
NoVariant == [kind |-> "none", i |-> 0, gz |-> FALSE]

CodecIdle ==
    /\ c_pc = "idle" /\ c_src = <<>> /\ c_pad = "none"
    /\ c_field = <<>> /\ c_text = <<>>

MainIdle ==
    /\ pc = "idle" /\ page_size = 0 /\ dir = <<>> /\ pack = NoPack
    /\ variant = NoVariant /\ image = <<>> /\ split = NoSplit("none")

Init ==
    /\ pc = "setup"
    /\ page_size \in PageSizes
    /\ dir = <<>>
    /\ pack = NoPack
    /\ variant = NoVariant
    /\ image = <<>>
    /\ split = NoSplit("none")
    /\ CodecIdle

\* a file appears in the input directory before pack runs
AddFile(f) ==
    /\ pc = "setup"
    /\ Len(dir) < MaxFiles
    /\ dir' = Append(dir, f)
    /\ UNCHANGED <<pc, page_size, pack, variant, image, split>>
    /\ UNCHANGED codecVars

\* main: Commands::Pack
DtbPack ==
    /\ pc = "setup"
    /\ pack' = dtb_pack(dir, page_size)
    /\ pc' = "packed"
    /\ UNCHANGED <<page_size, dir, variant, image, split>>
    /\ UNCHANGED codecVars

\* main: Commands::Split, on an image derived from the container just packed
DtbSplit(v) ==
    /\ pc = "packed"
    /\ pack.created
    /\ variant' = v
    /\ image' = VariantImage(v, pack)
    /\ split' = dtb_split(image')
    /\ pc' = "done"
    /\ UNCHANGED <<page_size, dir, pack>>
    /\ UNCHANGED codecVars

Next ==
    \/ \E f \in InputFiles : AddFile(f)
    \/ DtbPack
    \/ \E v \in Variants(pack) : DtbSplit(v)

Spec == Init /\ [][Next]_vars

(***************************************************************************)
(* The identifier codec on its own: a component is stored in a 16-byte     *)
(* field, by pack or by another writer of the format, and decoded.         *)
(***************************************************************************)
\* 'a', '~', ' ', U+00E9
CodecAlphabet == {97, 126, 32, 233}
\* "gxbb", "p200", "1a"
SampleComps == {<<103, 120, 98, 98>>, <<112, 50, 48, 48>>, <<49, 97>>}
\* n characters a, the k-th (if any) replaced by b
CompInputs ==
    {[j \in 1..n |-> IF j = k THEN b ELSE a] :
        n \in 0..MaxCompLen, k \in 0..MaxCompLen, a \in CodecAlphabet, b \in CodecAlphabet}
    \cup SampleComps

Pads == {"pack", "nul", "mixed"}

CodecInit ==
    /\ c_pc = "in"
    /\ c_src \in CompInputs
    /\ c_pad \in Pads
    /\ c_field = <<>>
    /\ c_text = <<>>
    /\ MainIdle

\* get_chip_info's copy followed by dtb_pack's padding and word reversal
PackField ==
    /\ c_pc = "in"
    /\ c_pad = "pack"
    /\ c_field' = EncodeField(copy_str_to_cstr(Zeros(INFO_ENTRY_SIZE), c_src).dst)
    /\ c_pc' = "stored"
    /\ UNCHANGED <<c_src, c_pad, c_text>>
    /\ UNCHANGED mainVars

\* another writer of the format stores the same text NUL-padded, or
\* space-padded with a terminating NUL
ForeignField ==
    /\ c_pc = "in"
    /\ c_pad # "pack"
    /\ LET raw == copy_str_to_cstr(Zeros(INFO_ENTRY_SIZE), c_src).dst
       IN  c_field' = IF c_pad = "nul" THEN ReverseChunks(raw)
                      ELSE ReverseChunks([pad_spaces(raw) EXCEPT ![INFO_ENTRY_SIZE] = 0])
    /\ c_pc' = "stored"
    /\ UNCHANGED <<c_src, c_pad, c_text>>
    /\ UNCHANGED mainVars

\* dump_data's decoding of one field
DecodeStored ==
    /\ c_pc = "stored"
    /\ c_text' = DecodeField(c_field)
    /\ c_pc' = "decoded"
    /\ UNCHANGED <<c_src, c_pad, c_field>>
    /\ UNCHANGED mainVars

CodecNext == PackField \/ ForeignField \/ DecodeStored

SpecCodec == CodecInit /\ [][CodecNext]_vars

(***************************************************************************)
(* Properties.                                                             *)
(***************************************************************************)
Range(q) == {q[k] : k \in 1..Len(q)}
\* the files on disk after split: the last write under each name
FilesOnDisk(files) ==
    {[name |-> files[k].name, data |-> files[k].data] :
        k \in {j \in 1..Len(files) : \A m \in (j + 1)..Len(files) : files[m].name # files[j].name}}
RECURSIVE JoinDash(_)
JoinDash(parts) ==
    IF Len(parts) = 1 THEN parts[1] ELSE parts[1] \o <<45>> \o JoinDash(Tail(parts))
\* <dest><soc>-<platform>-<variant>.dtb for an identifier property
NameFor(id) == Dest \o JoinDash(StrSplit(id)) \o DtbSuffix
\* the uncompressed container behind the image of the current state
Container == BaseImage(variant, pack)
ContainerHeader == ParseHeader(SubSeq(Container, 1, HeaderSize))
\* entry k of a container whose records are width bytes wide
RecordAt(c, k, id_size, width) ==
    ParseEntry(SubSeq(c, HeaderSize + (k - 1) * width + 1, HeaderSize + k * width), id_size)
Printable(c) == c \in 33..126

\* C1: packing N >= 1 valid DTB files with pairwise distinct well-formed
\* identifiers and splitting the uncompressed container yields exactly N
\* files, each byte-identical to its original and named after its identifier.
C1_RoundTrip ==
    ( /\ pc = "done"
      /\ variant = [kind |-> "asis", i |-> 0, gz |-> FALSE]
      /\ page_size >= 1
      /\ Len(dir) >= 1
      /\ \A k \in 1..Len(dir) : dir[k] \in WellFormedFiles
      /\ \A j, k \in 1..Len(dir) : j # k => dir[j].id # dir[k].id )
    => /\ split.status = "ok"
       /\ Len(split.files) = Len(dir)
       /\ FilesOnDisk(split.files) =
            {[name |-> NameFor(dir[k].id), data |-> dir[k].buf] : k \in 1..Len(dir)}

\* the 8 bytes at entry k's recorded offset lie inside the container
OffsetInRange(c, k) ==
    RecordAt(c, k, INFO_ENTRY_SIZE, EntrySize(INFO_ENTRY_SIZE)).offset + DTHeaderSize <= Len(c)
MagicAtOffset(c, k) ==
    LET off == RecordAt(c, k, INFO_ENTRY_SIZE, EntrySize(INFO_ENTRY_SIZE)).offset
    IN  SubSeq(c, off + 1, off + 4) = DT_HEADER_MAGIC

\* C2: in a container with a valid header and in-range offsets, every entry
\* whose blob starts with the DTB magic at its recorded offset is extracted,
\* every entry whose magic is corrupted is skipped with exactly one
\* diagnostic, and the batch is not aborted.
C2_FaultIsolation ==
    ( /\ pc = "done"
      /\ variant.kind \in {"asis", "corrupt"}
      /\ \A k \in 1..ContainerHeader.entry_count : OffsetInRange(Container, k) )
    => /\ split.status = "ok"
       /\ \A k \in 1..ContainerHeader.entry_count :
            IF MagicAtOffset(Container, k)
            THEN <<"extract", k>> \in Range(split.log) /\ <<"mismatch", k>> \notin Range(split.log)
            ELSE <<"extract", k>> \notin Range(split.log) /\
                 Cardinality({j \in 1..Len(split.log) : split.log[j] = <<"mismatch", k>>}) = 1

\* C3: splitting gzip(C) gives the same status, the same output files and
\* the same skipped entries as splitting C itself.
C3_GzipTransparency ==
    (pc = "done" /\ variant.gz /\ variant.kind \in {"asis", "corrupt", "v1"})
    => LET plain == dtb_split(Container)
       IN  /\ split.status = plain.status
           /\ split.files = plain.files
           /\ split.log = plain.log

\* version 1 reads w1-byte records with 4-byte identifiers, version 2 reads
\* w2-byte records with 16-byte identifiers, any other version reads nothing
VersionDispatch(w1, w2) ==
    (pc = "done" /\ variant.kind # "raw")
    => LET h == ContainerHeader
           n == h.entry_count
       IN  /\ h.version = 1 =>
                /\ split.consumed = n * w1
                /\ split.headers = [k \in 1..n |-> RecordAt(Container, k, 4, w1)]
           /\ h.version = 2 =>
                /\ split.consumed = n * w2
                /\ split.headers = [k \in 1..n |-> RecordAt(Container, k, INFO_ENTRY_SIZE, w2)]
           /\ h.version \notin {1, 2} =>
                /\ split.status = "version"
                /\ split.consumed = 0
                /\ split.headers = <<>>
                /\ split.files = <<>>

\* C4 (as the specification states it): version 1 decodes 20-byte records with 4-byte identifier
\* fields, version 2 decodes 68-byte records with 16-byte identifier fields,
\* any other version stops split with no entry read and no file created.
C4_VersionDispatch68 == VersionDispatch(20, 68)

\* C4 (amended): version 1 decodes 20-byte records with 4-byte identifier
\* fields, version 2 decodes 56-byte records with 16-byte identifier fields,
\* any other version stops split with no entry read and no file created.
C4_VersionDispatch56 == VersionDispatch(20, 56)

\* C4 witness: a version 1 container of two entries was decoded with 4-byte
\* identifier fields ("gxbb" first) and a blob extracted
C4_Witness ==
    /\ pc = "done"
    /\ variant.kind = "v1"
    /\ Len(split.headers) = 2
    /\ split.files # <<>>
    /\ DecodeField(split.headers[1].soc) = <<103, 120, 98, 98>>

\* C5: a component of 1 to 15 printable non-whitespace ASCII characters,
\* encoded into a 16-byte field by pack and decoded by split, comes back
\* unchanged; "gxbb-p200-1a" comes back as "gxbb-p200-1a".
C5_IdentifierRoundTrip ==
    /\ ( /\ c_pc = "decoded"
         /\ c_pad = "pack"
         /\ Len(c_src) \in 1..(INFO_ENTRY_SIZE - 1)
         /\ \A k \in 1..Len(c_src) : Printable(c_src[k]) )
       => c_text = c_src
    /\ LET parts == StrSplit(Ids[1])
       IN  JoinDash([k \in 1..Len(parts) |->
                DecodeField(EncodeField(copy_str_to_cstr(Zeros(INFO_ENTRY_SIZE), parts[k]).dst))])
           = Ids[1]

\* C5 witness: a 15-character component has been encoded and decoded
C5_Witness ==
    /\ c_pc = "decoded"
    /\ c_pad = "pack"
    /\ Len(c_src) = INFO_ENTRY_SIZE - 1
    /\ \A k \in 1..Len(c_src) : Printable(c_src[k])
    /\ c_text = c_src

\* C6: the dtb_size stored in an entry is len + (p - (len mod p)): greater
\* than len, a multiple of p, and len + p when len is a multiple of p
\* (p = 2048, len = 4096 gives 6144).
C6_AlignmentQuirk ==
    /\ (pc # "setup" /\ pack.status = "written")
       => \A k \in 1..Len(pack.from) :
            LET len == Len(dir[pack.from[k]].buf)
                stored == RecordAt(pack.out, k, INFO_ENTRY_SIZE,
                                   EntrySize(INFO_ENTRY_SIZE)).dtb_size
            IN  /\ stored = len + (page_size - (len % page_size))
                /\ stored > len
                /\ stored % page_size = 0
                /\ (len % page_size = 0 => stored = len + page_size)
    /\ \A len \in 0..(MaxPage * MaxPage), p \in 1..MaxPage :
            /\ PaddedSize(len, p) > len
            /\ PaddedSize(len, p) % p = 0
            /\ PaddedSize(len, p) <= len + p
    /\ PaddedSize(4096, 2048) = 6144

\* C6 witness: a blob whose length is a multiple of a page size above 1 was packed
C6_Witness ==
    /\ pc = "packed"
    /\ pack.status = "written"
    /\ page_size > 1
    /\ \E k \in 1..Len(pack.from) : Len(dir[pack.from[k]].buf) % page_size = 0

\* a file the scan collects nothing from: not a .dtb, or no identifier property
Skipped(f) == f.ext # "dtb" \/ (f.valid /\ (~f.root \/ ~f.prop))

\* C7: when the scan collects no usable entry (no .dtb file, or every
\* candidate skipped), pack reports a count of 0 and returns without
\* creating the output file.
C7_EmptyInputGuard ==
    (pc # "setup" /\ \A k \in 1..Len(dir) : Skipped(dir[k]))
    => /\ pack.status = "empty"
       /\ ~pack.created
       /\ pack.out = <<>>
       /\ <<"count", 0>> \in Range(pack.log)
       /\ <<"written">> \notin Range(pack.log)

\* C7 witness: pack ran on a directory holding a skipped .dtb candidate and another file
C7_Witness ==
    /\ pc = "packed"
    /\ pack.status = "empty"
    /\ \E k \in 1..Len(dir) : dir[k].ext = "dtb"
    /\ \E k \in 1..Len(dir) : dir[k].ext # "dtb"
    /\ <<"count", 0>> \in Range(pack.log)

\* an identifier property that does not split into exactly three components
Malformed(f) == f.ext = "dtb" /\ f.valid /\ f.root /\ f.prop /\ Len(StrSplit(f.id)) # 3

\* C8: when a candidate's identifier does not split into exactly three
\* components, pack emits a diagnostic and keeps going: it does not crash,
\* and every other input file is still processed and packed.
C8_NonFatalIdentifier ==
    ( /\ pc # "setup"
      /\ page_size >= 1
      /\ \A k \in 1..Len(dir) : dir[k].valid
      /\ \E k \in 1..Len(dir) : Malformed(dir[k]) )
    => /\ pack.status # "panic"
       /\ \A k \in 1..Len(dir) : Malformed(dir[k]) => <<"cannot_parse", k>> \in Range(pack.log)
       /\ \A k \in 1..Len(dir) : dir[k] \in WellFormedFiles => k \in Range(pack.from)

\* C9: decoding removes trailing NUL bytes as well as trailing spaces, so a
\* field padded with NULs, or with spaces and NULs, decodes to the same text
\* as the same field padded with spaces only.
C9_DecodeTrimsNul ==
    c_pc = "decoded"
    => c_text = DecodeField(EncodeField(copy_str_to_cstr(Zeros(INFO_ENTRY_SIZE), c_src).dst))

\* C10: in every container pack writes, the offset recorded in entry k is
\* the file position at which blob k's first byte was written.
C10_OffsetConsistency ==
    (pc # "setup" /\ pack.status = "written")
    => \A k \in 1..Len(pack.chip_list) :
         RecordAt(pack.out, k, INFO_ENTRY_SIZE, EntrySize(INFO_ENTRY_SIZE)).offset
           = pack.blob_at[k]
====
